---- MODULE Spec2Model ----
(***************************************************************************)
(* A model of sfp.Poller (src/src/sfp/_poller.py): the fixed-interval      *)
(* driver (_simple_poll), the event-driven driver (_watchdog_poll with     *)
(* FileCreatedHandler.on_created running on the observer thread), and the  *)
(* two operations they share, list_files and process_files.                *)
(*                                                                         *)
(* Threads interleave between the statements of the source: each action is *)
(* one stretch of code up to the next callback or loop head, so the busy   *)
(* flags, the blacklist and the directory are read and written in the      *)
(* order the code reads and writes them.                                   *)
(***************************************************************************)
EXTENDS Integers, Sequences, FiniteSets, TLC

\* ------------------------------------------------------------------ bounds

\* Number of files the producers may ever drop into the input directory.
NumFiles == 2
\* Number of injected failures (validator/listdir raising, processor or
\* relocation raising) per behaviour.
MaxFaults == 1
\* watchdog_check_interval, in ticks of the 0.1 s sleep of _watchdog_poll.
WatchdogTicks == 1
\* Strike counts are kept up to this value (above every configured
\* blacklist_tries, where the code treats all counts alike).
MaxStrikes == 3

Files == 1 .. NumFiles
Threads == {"main", "observer"}

\* Python's None, as returned by list_files when stopped (no file is 0).
None == << 0 >>

\* The values of max_files and blacklist_tries the model configures.
MaxFilesChoices == {-1, 1, 2}
TriesChoices == {1, 2}
\* The values of max_files configured with the event-driven driver.
WatchdogMaxFilesChoices == {-1, 2}
\* Paths are sequences of tokens: the separator, directory names, the stem
\* and the extension of a file name. input_dir is configured as an absolute
\* or as a relative path.
AbsoluteDir == << "/", "in" >>
RelativeDir == << "in" >>
\* The stems the file with the unmonitored extension may carry: the stem of
\* the first monitored file, or one that no other file has.
MetaStems == { ToString(2), "b" }
\* The process_file callbacks the model configures, each given by the set of
\* files it raises on whenever it is handed them: none, or one file.
ProcessorChoices == { {} } \cup { {f} : f \in Files }

VARIABLES
    cfg,                 \* the Poller's configuration (constructor arguments)
    loc,                 \* where each file is: "none", "input", "output", "deleted"
    complete,            \* whether the producer has finished writing the file
    blacklist,           \* _blacklist: strike count per path, 0 = no entry
    stopped,             \* _stopped
    is_listing_files,
    is_processing_files,
    observer,            \* _observer: "none", "running", "stopped", "joined"
    events,              \* creation events queued for the observer thread
    pc,                  \* where each thread is in the code
    entries,             \* list_files: the directory entries still to visit
    file_list,           \* list_files' result / the caller's file_list
    ok,                  \* list_files: the validator's answer for the entry
    cur,                 \* list_files: file_path of the entry being handled
    i,                   \* process_files: index into file_list
    maybe_more_files,    \* the drain loops' flag
    count,               \* _watchdog_poll: count, in ticks
    faults,              \* failures injected so far
    out,                 \* where the outputs the processor declared for a file
                         \* are: "none", "tmp", "output"
    \* history, read only by the properties
    forced,              \* the sweep relocated or deleted the file
    stop_at,             \* per thread: index being processed when stop() came
    cut,                 \* per thread: the listing was cut short by an error
    eligible,            \* per thread: the files eligible when the listing began
    handled              \* per thread: the paths handed to the processor, in order

vars == << cfg, out, loc, complete, blacklist, stopped, is_listing_files,
           is_processing_files, observer, events, pc, entries, file_list, ok,
           cur, i, maybe_more_files, count, faults, forced, stop_at, cut,
           eligible, handled >>

\* ----------------------------------------------------------- configuration

use_watchdog == cfg.use_watchdog
continuous == cfg.continuous
max_files == cfg.max_files
blacklist_tries == cfg.blacklist_tries
delete_input == cfg.delete_input
extensions == cfg.extensions
process_file == cfg.process_file
tmp_dir == cfg.tmp_dir
input_dir == cfg.input_dir
other_input_files == cfg.other_input_files
delete_other_input_files == cfg.delete_other_input_files
watchdog_check_interval == WatchdogTicks

\* The configurations the model starts from. A processor that rejects a file
\* is configured with the fixed-interval driver and a cap, moving the input,
\* filtering no extension and giving up an incomplete file at its first
\* strike; the event-driven driver moves the input and
\* filters no extension. A staging directory and a sibling pattern are
\* configured with the fixed-interval driver, non-continuous and uncapped,
\* with the extension filter on; cfg.meta_stem is the stem of the file that
\* carries the unmonitored extension.
Configs ==
    { c \in [ use_watchdog : BOOLEAN, continuous : BOOLEAN,
              max_files : MaxFilesChoices, blacklist_tries : TriesChoices,
              delete_input : BOOLEAN, extensions : BOOLEAN,
              process_file : ProcessorChoices, tmp_dir : BOOLEAN,
              input_dir : {AbsoluteDir, RelativeDir},
              other_input_files : BOOLEAN,
              delete_other_input_files : BOOLEAN,
              meta_stem : MetaStems ] :
        /\ c.use_watchdog => /\ ~c.delete_input
                             /\ ~c.extensions
                             /\ c.max_files \in WatchdogMaxFilesChoices
        /\ c.process_file # {} => /\ ~c.use_watchdog
                                  /\ ~c.delete_input
                                  /\ ~c.extensions
                                  /\ c.max_files > 0
                                  /\ c.blacklist_tries = 1
        /\ c.tmp_dir \/ c.other_input_files =>
               /\ ~c.use_watchdog
               /\ ~c.continuous
               /\ c.extensions
               /\ c.process_file = {}
               /\ c.max_files = -1
               /\ c.blacklist_tries = 1
        /\ ~c.other_input_files => /\ c.input_dir = AbsoluteDir
                                   /\ ~c.delete_other_input_files
                                   /\ c.meta_stem = "b" }

\* os.path.splitext(file_name)[1] in self.extensions: with an extension set
\* configured, the first file carries an extension that is not in it.
ExtensionMatches(f) == f > 1

\* A flag that is never seen set: not what the code does, the cancellation
\* properties must tell it from is_stopped.
NeverStopped == FALSE

is_stopped == stopped
is_busy == is_listing_files \/ is_processing_files

\* ------------------------------------------------------------------ helpers

RECURSIVE Perms(_)
\* All orders in which os.listdir may return the set S of names.
Perms(S) ==
    IF S = {} THEN { << >> }
    ELSE UNION { { << x >> \o p : p \in Perms(S \ {x}) } : x \in S }

InputFiles == { f \in Files : loc[f] = "input" }

\* Whether n more failures may be injected: up to MaxFaults per behaviour, in
\* the fixed-interval configurations.
CanFail(n) == n = 0 \/ (~use_watchdog /\ faults + n <= MaxFaults)

\* Whether a call that may raise does: FALSE, or either once a failure may
\* be injected.
Raises == IF CanFail(1) THEN BOOLEAN ELSE {FALSE}

\* The files a listing that starts now finds eligible: in the directory,
\* with a monitored extension, and accepted by the validator.
Eligible ==
    { f \in InputFiles : complete[f] /\ (extensions => ExtensionMatches(f)) }

\* Where a file removed from the input directory ends up.
Removed == IF delete_input THEN "deleted" ELSE "output"

InitState ==
    /\ loc = [f \in Files |-> "none"]
    /\ complete = [f \in Files |-> FALSE]
    /\ blacklist = [f \in Files |-> 0]
    /\ stopped = FALSE
    /\ is_listing_files = FALSE
    /\ is_processing_files = FALSE
    /\ observer = "none"
    /\ events = 0
    /\ pc = [t \in Threads |-> IF t = "main" THEN "init" ELSE "idle"]
    /\ entries = [t \in Threads |-> << >>]
    /\ file_list = [t \in Threads |-> << >>]
    /\ ok = [t \in Threads |-> FALSE]
    /\ cur = [t \in Threads |-> 0]
    /\ i = [t \in Threads |-> 0]
    /\ maybe_more_files = [t \in Threads |-> FALSE]
    /\ count = 0
    /\ faults = 0
    /\ out = [f \in Files |-> "none"]
    /\ forced = [f \in Files |-> FALSE]
    /\ stop_at = [t \in Threads |-> 0]
    /\ cut = [t \in Threads |-> FALSE]
    /\ eligible = [t \in Threads |-> {}]
    /\ handled = [t \in Threads |-> << >>]

Init == cfg \in Configs /\ InitState

\* ------------------------------------------------------------- environment

Terminal == {"returned", "raised", "config_error"}
Polling == pc["main"] \notin Terminal \cup {"init"}

\* A producer drops a file into the input directory, finished or not; with the
\* observer running the creation event is queued, or missed.
CreateFile(f) ==
    /\ pc["main"] \notin Terminal
    /\ loc[f] = "none"
    /\ loc' = [loc EXCEPT ![f] = "input"]
    /\ \E c \in BOOLEAN : complete' = [complete EXCEPT ![f] = c]
    /\ \E d \in (IF observer = "running" THEN {0, 1} ELSE {0}) :
          events' = events + d
    /\ UNCHANGED << cfg, out, blacklist, stopped, is_listing_files,
                    is_processing_files, observer, pc, entries, file_list, ok,
                    cur, i, maybe_more_files, count, faults, forced, stop_at,
                    cut, eligible, handled >>

\* The producer finishes writing a file: the validator accepts it from now on.
CompleteFile(f) ==
    /\ pc["main"] \notin Terminal
    /\ loc[f] = "input"
    /\ ~complete[f]
    /\ complete' = [complete EXCEPT ![f] = TRUE]
    /\ UNCHANGED << cfg, out, loc, blacklist, stopped, is_listing_files,
                    is_processing_files, observer, events, pc, entries,
                    file_list, ok, cur, i, maybe_more_files, count, faults,
                    forced, stop_at, cut, eligible, handled >>

\* Poller.stop: the assignments of the method, in one step.
stop ==
    /\ stopped' = TRUE
    /\ observer' = IF observer = "running" THEN "stopped" ELSE observer
    /\ is_processing_files' = FALSE
    /\ is_listing_files' = FALSE

\* stop() called while poll() runs: by the validator or the processor callback
\* of a thread that is inside the call, or by any other thread.
Stop ==
    /\ Polling
    /\ stop
    /\ stop_at' = [t \in Threads |->
                     IF ~stopped /\ pc[t] \in {"pf_handle", "pf_promote",
                                              "pf_move", "pf_other"}
                     THEN i[t]
                     ELSE stop_at[t]]
    /\ UNCHANGED << cfg, out, loc, complete, blacklist, events, pc, entries,
                    file_list, ok, cur, i, maybe_more_files, count, faults,
                    forced, cut, eligible, handled >>

\* --------------------------------------------------------------- list_files

\* The validator's answer: the file is ready once completely written; for a
\* path that is no longer in the directory the callback may answer either way.
CheckFile(f) == IF loc[f] = "input" THEN {complete[f]} ELSE BOOLEAN

\* Lines 387-388: the entry check of list_files.
ListEnter(t) ==
    /\ pc[t] = "lf_enter"
    /\ IF is_stopped
       THEN /\ file_list' = [file_list EXCEPT ![t] = None]
            /\ pc' = [pc EXCEPT ![t] = "after_list"]
       ELSE /\ pc' = [pc EXCEPT ![t] = "lf_start"]
            /\ UNCHANGED file_list
    /\ UNCHANGED << cfg, out, loc, complete, blacklist, stopped, is_listing_files,
                    is_processing_files, observer, events, entries, ok, cur,
                    i, maybe_more_files, count, faults, forced, stop_at, cut,
                    eligible, handled >>

\* An error that leaves list_files: not what the code does, the error
\* properties must tell it from ListError.
ListErrorPropagates(t) ==
    /\ cut' = [cut EXCEPT ![t] = TRUE]
    /\ pc' = [pc EXCEPT ![t] = "raised"]
    /\ UNCHANGED is_listing_files

\* Lines 462-468: what the outer except of list_files does with an error of
\* os.listdir or of the validator: it is logged, the flag is lowered and the
\* list accumulated so far is returned.
ListError(t) ==
    /\ cut' = [cut EXCEPT ![t] = TRUE]
    /\ pc' = [pc EXCEPT ![t] = "after_list"]
    /\ is_listing_files' = FALSE

\* Lines 390-395: the flag is raised and os.listdir enumerates the directory
\* in some order; if it raises, the outer except returns the empty list.
ListStart(t) ==
    /\ pc[t] = "lf_start"
    /\ file_list' = [file_list EXCEPT ![t] = << >>]
    /\ \E raised \in Raises :
          IF raised
          THEN /\ faults' = faults + 1
               /\ ListError(t)
               /\ UNCHANGED entries
          ELSE /\ \E es \in Perms(InputFiles) :
                     entries' = [entries EXCEPT ![t] = es]
               /\ is_listing_files' = TRUE
               /\ cut' = [cut EXCEPT ![t] = FALSE]
               /\ pc' = [pc EXCEPT ![t] = "lf_loop"]
               /\ UNCHANGED faults
    /\ eligible' = [eligible EXCEPT ![t] = IF max_files > 0 THEN Eligible ELSE {}]
    /\ UNCHANGED << cfg, out, loc, complete, blacklist, stopped,
                    is_processing_files, observer, events, ok, cur, i,
                    maybe_more_files, count, forced, stop_at, handled >>

\* Lines 395-414 and 457-468: the loop head. The enumeration is exhausted
\* (flag lowered, list returned), or stop is seen (None returned, flag left as
\* it is), or the next entry is skipped by the extension filter, or the
\* validator is called on it and answers or raises.
ListLoop(t) ==
    /\ pc[t] = "lf_loop"
    /\ IF entries[t] = << >>
       THEN /\ is_listing_files' = FALSE
            /\ pc' = [pc EXCEPT ![t] = "after_list"]
            /\ UNCHANGED << entries, file_list, ok, cur, faults, cut >>
       ELSE IF is_stopped
       THEN /\ file_list' = [file_list EXCEPT ![t] = None]
            /\ entries' = [entries EXCEPT ![t] = << >>]
            /\ pc' = [pc EXCEPT ![t] = "after_list"]
            /\ UNCHANGED << is_listing_files, ok, cur, faults, cut >>
       ELSE LET f == Head(entries[t]) IN
            IF extensions /\ ~ExtensionMatches(f)
            THEN /\ entries' = [entries EXCEPT ![t] = Tail(entries[t])]
                 /\ UNCHANGED << pc, is_listing_files, file_list, ok, cur,
                                 faults, cut >>
            ELSE \E raised \in Raises :
                    IF raised
                    THEN /\ faults' = faults + 1
                         /\ entries' = [entries EXCEPT ![t] = << >>]
                         /\ ListError(t)
                         /\ UNCHANGED << file_list, ok, cur >>
                    ELSE /\ \E r \in CheckFile(f) : ok' = [ok EXCEPT ![t] = r]
                         /\ entries' = [entries EXCEPT ![t] = Tail(entries[t])]
                         /\ cur' = [cur EXCEPT ![t] = f]
                         /\ pc' = [pc EXCEPT ![t] = "lf_record"]
                         /\ UNCHANGED << is_listing_files, file_list, faults,
                                         cut >>
    /\ UNCHANGED << cfg, out, loc, complete, blacklist, stopped,
                    is_processing_files, observer, events, i,
                    maybe_more_files, count, forced, stop_at, eligible,
                    handled >>

\* Lines 415-424: the validator's answer is recorded.
ListRecord(t) ==
    /\ pc[t] = "lf_record"
    /\ IF ok[t]
       THEN /\ blacklist' = [blacklist EXCEPT ![cur[t]] = 0]
            /\ file_list' = [file_list EXCEPT ![t] = Append(file_list[t], cur[t])]
       ELSE /\ blacklist' = [blacklist EXCEPT ![cur[t]] =
                                IF @ < MaxStrikes THEN @ + 1 ELSE @]
            /\ UNCHANGED file_list
    /\ ok' = [ok EXCEPT ![t] = FALSE]
    /\ cur' = [cur EXCEPT ![t] = 0]
    /\ pc' = [pc EXCEPT ![t] = "lf_sweep"]
    /\ UNCHANGED << cfg, out, loc, complete, stopped, is_listing_files,
                    is_processing_files, observer, events, entries, i,
                    maybe_more_files, count, faults, forced, stop_at, cut,
                    eligible, handled >>

\* The paths the sweep picks: those whose count equals blacklist_tries.
Expired == { k \in Files : blacklist[k] = blacklist_tries }

\* A listing that stops one entry after the cap: not what the code does, the
\* cap properties must tell it from ReachedLimit.
ReachedLimitLate(t) == max_files > 0 /\ Len(file_list[t]) = max_files + 1

\* Whether the listing stops accumulating (lines 452-455).
ReachedLimit(t) == max_files > 0 /\ Len(file_list[t]) = max_files

\* Lines 428-455: the sweep removes every expired path from the directory
\* (an error of os.remove/os.rename is swallowed) and from the blacklist, then
\* the cap is tested.
ListSweep(t) ==
    /\ pc[t] = "lf_sweep"
    /\ \E bad \in SUBSET (Expired \cap InputFiles) :
          /\ CanFail(Cardinality(bad))
          /\ faults' = faults + Cardinality(bad)
          /\ loc' = [k \in Files |->
                       IF k \in Expired \cap InputFiles /\ k \notin bad
                       THEN Removed ELSE loc[k]]
          /\ forced' = [k \in Files |->
                          forced[k] \/ (k \in Expired \cap InputFiles /\ k \notin bad)]
    /\ blacklist' = [k \in Files |-> IF k \in Expired THEN 0 ELSE blacklist[k]]
    /\ IF ReachedLimit(t)
       THEN /\ is_listing_files' = FALSE
            /\ entries' = [entries EXCEPT ![t] = << >>]
            /\ pc' = [pc EXCEPT ![t] = "after_list"]
       ELSE /\ pc' = [pc EXCEPT ![t] = "lf_loop"]
            /\ UNCHANGED << is_listing_files, entries >>
    /\ UNCHANGED << cfg, out, complete, stopped, is_processing_files, observer,
                    events, file_list, ok, cur, i, maybe_more_files, count,
                    stop_at, cut, eligible, handled >>

\* ------------------------------------------------------------ process_files

\* Lines 478-482: the entry check of process_files.
ProcessEnter(t) ==
    /\ pc[t] = "pf_enter"
    /\ IF is_stopped
       THEN /\ pc' = [pc EXCEPT ![t] = "after_process"]
            /\ UNCHANGED << is_processing_files, i >>
       ELSE /\ is_processing_files' = TRUE
            /\ i' = [i EXCEPT ![t] = 1]
            /\ pc' = [pc EXCEPT ![t] = "pf_loop"]
    /\ UNCHANGED << cfg, out, loc, complete, blacklist, stopped, is_listing_files,
                    observer, events, entries, file_list, ok, cur,
                    maybe_more_files, count, faults, forced, stop_at, cut,
                    eligible, handled >>

\* Lines 485-499 and 545: the loop head. The batch is exhausted (flag lowered),
\* or stop is seen (return, flag left as it is), or the processor is called
\* for the next path.
ProcessLoop(t) ==
    /\ pc[t] = "pf_loop"
    /\ IF i[t] > Len(file_list[t])
       THEN /\ is_processing_files' = FALSE
            /\ pc' = [pc EXCEPT ![t] = "after_process"]
            /\ UNCHANGED handled
       ELSE IF is_stopped
       THEN /\ pc' = [pc EXCEPT ![t] = "after_process"]
            /\ UNCHANGED << is_processing_files, handled >>
       ELSE /\ handled' = [handled EXCEPT ![t] = Append(@, file_list[t][i[t]])]
            /\ pc' = [pc EXCEPT ![t] = "pf_handle"]
            /\ UNCHANGED is_processing_files
    /\ UNCHANGED << cfg, out, loc, complete, blacklist, stopped, is_listing_files,
                    observer, events, entries, file_list, ok, cur, i,
                    maybe_more_files, count, faults, forced, stop_at, cut,
                    eligible >>

\* An except branch that gives up the batch: not what the code does, the
\* batch properties must tell it from HandleFailure.
HandleFailureAborts(t) ==
    /\ i' = i
    /\ pc' = [pc EXCEPT ![t] = "after_process"]

\* What the except branch of lines 529-531 does with the path that failed:
\* the error is logged and the loop goes on with the next path.
HandleFailure(t) ==
    /\ i' = [i EXCEPT ![t] = i[t] + 1]
    /\ pc' = [pc EXCEPT ![t] = "pf_loop"]

\* Whether the processor callback raises when handed f: always on a file it
\* rejects; on a path that is no longer in the input directory it may do
\* either; otherwise only by an injected failure.
ProcessorRaises(f) ==
    IF f \in process_file THEN {TRUE}
    ELSE IF loc[f] = "input" THEN Raises ELSE BOOLEAN

\* ---------------------------------------------------------------- paths

\* Line 11: the placeholder of a sibling pattern.
GLOB_NAME_PLACEHOLDER == "{NAME}"

\* The sibling pattern the model configures as other_input_files.
OtherInputFile == << GLOB_NAME_PLACEHOLDER, ".meta" >>

\* The name of a file in the input directory, as stem and extension: file 1
\* carries the unmonitored extension, the others the monitored one.
FileName(f) ==
    IF f = 1 THEN << cfg.meta_stem, ".meta" >> ELSE << ToString(f), ".txt" >>

\* os.path.isabs
IsAbs(p) == p # << >> /\ Head(p) = "/"

\* os.path.join of two components: an absolute second component discards the
\* first.
Join(a, b) == IF IsAbs(b) THEN b ELSE a \o << "/" >> \o b

\* os.path.splitext(p)[0]
SplitextRoot(p) ==
    IF p # << >> /\ p[Len(p)] \in {".txt", ".meta"}
    THEN SubSeq(p, 1, Len(p) - 1)
    ELSE p

\* str.replace over the tokens of a pattern.
RECURSIVE Replace(_, _, _)
Replace(s, old, new) ==
    IF s = << >> THEN << >>
    ELSE (IF Head(s) = old THEN new ELSE << Head(s) >>)
             \o Replace(Tail(s), old, new)

\* Line 400: the path list_files returns for a file of the input directory.
FilePath(f) == Join(input_dir, FileName(f))

\* glob.glob of a pattern without wildcards: the path itself when a file is
\* there, resolved as the process resolves the paths of the input directory.
Glob(pattern) ==
    { FilePath(g) : g \in { h \in InputFiles : FilePath(h) = pattern } }

\* Line 517: the sibling paths found for the path being processed.
OtherFiles(file_path) ==
    Glob(Join(input_dir,
              Replace(OtherInputFile, GLOB_NAME_PLACEHOLDER,
                      SplitextRoot(file_path))))

\* Line 519: the paths the siblings are relocated from.
OtherPaths(file_path) == { Join(input_dir, p) : p \in OtherFiles(file_path) }

\* Lines 520-525: where a relocated sibling goes.
RemovedOther == IF delete_other_input_files THEN "deleted" ELSE "output"

\* A processor that is always handed the staging directory: not what the
\* code does, the staging properties must tell it from ProcessorDir.
ProcessorDirStaging == "tmp"

\* Lines 498-504: the directory the processor callback is handed.
ProcessorDir == IF tmp_dir THEN "tmp" ELSE "output"

\* Lines 496-504: the processor callback is called with the path and the
\* directory for its outputs. It returns, or it raises and the error is caught.
ProcessFile(t) ==
    /\ pc[t] = "pf_handle"
    /\ LET f == file_list[t][i[t]] IN
       \E raised \in ProcessorRaises(f) :
          IF raised
          THEN /\ faults' = IF loc[f] = "input" /\ f \notin process_file
                            THEN faults + 1
                            ELSE faults
               /\ HandleFailure(t)
               /\ UNCHANGED out
          ELSE /\ out' = [out EXCEPT ![f] = ProcessorDir]
               /\ pc' = [pc EXCEPT ![t] = IF tmp_dir THEN "pf_promote"
                                                     ELSE "pf_move"]
               /\ UNCHANGED << faults, i >>
    /\ UNCHANGED << cfg, loc, complete, blacklist, stopped, is_listing_files,
                    is_processing_files, observer, events, entries, file_list,
                    ok, cur, maybe_more_files, count, forced, stop_at, cut,
                    eligible, handled >>

\* Lines 500-502: with a staging directory, the outputs the processor returned
\* are renamed into the output directory; or a rename raises and the error is
\* caught.
ProcessPromote(t) ==
    /\ pc[t] = "pf_promote"
    /\ LET f == file_list[t][i[t]] IN
       \E raised \in Raises :
          IF raised
          THEN /\ faults' = faults + 1
               /\ HandleFailure(t)
               /\ UNCHANGED out
          ELSE /\ out' = [out EXCEPT ![f] = "output"]
               /\ pc' = [pc EXCEPT ![t] = "pf_move"]
               /\ UNCHANGED << faults, i >>
    /\ UNCHANGED << cfg, loc, complete, blacklist, stopped, is_listing_files,
                    is_processing_files, observer, events, entries, file_list,
                    ok, cur, maybe_more_files, count, forced, stop_at, cut,
                    eligible, handled >>

\* Lines 506-512: after the processor returned, the input file is deleted or
\* moved to the output directory; or the relocation raises (always so when the
\* path is no longer in the input directory) and the error is caught. With a
\* sibling pattern configured the siblings come next.
ProcessMove(t) ==
    /\ pc[t] = "pf_move"
    /\ LET f == file_list[t][i[t]] IN
       \E raised \in (IF loc[f] = "input" THEN Raises ELSE {TRUE}) :
          IF raised
          THEN /\ faults' = IF loc[f] = "input" THEN faults + 1 ELSE faults
               /\ HandleFailure(t)
               /\ UNCHANGED loc
          ELSE /\ loc' = [loc EXCEPT ![f] = Removed]
               /\ i' = [i EXCEPT ![t] = IF other_input_files THEN i[t]
                                                             ELSE i[t] + 1]
               /\ pc' = [pc EXCEPT ![t] = IF other_input_files THEN "pf_other"
                                                               ELSE "pf_loop"]
               /\ UNCHANGED faults
    /\ UNCHANGED << cfg, out, complete, blacklist, stopped, is_listing_files,
                    is_processing_files, observer, events, entries, file_list,
                    ok, cur, maybe_more_files, count, forced, stop_at, cut,
                    eligible, handled >>

\* Lines 515-536: the siblings the pattern finds for the path are deleted or
\* moved to the output directory; or a relocation raises and the error is
\* caught, the input file being relocated already.
ProcessOther(t) ==
    /\ pc[t] = "pf_other"
    /\ LET f == file_list[t][i[t]]
           others == { g \in InputFiles :
                         FilePath(g) \in OtherPaths(FilePath(f)) }
       IN
       \E raised \in (IF others = {} THEN {FALSE} ELSE Raises) :
          IF raised
          THEN /\ faults' = faults + 1
               /\ HandleFailure(t)
               /\ UNCHANGED loc
          ELSE /\ loc' = [g \in Files |->
                            IF g \in others THEN RemovedOther ELSE loc[g]]
               /\ i' = [i EXCEPT ![t] = i[t] + 1]
               /\ pc' = [pc EXCEPT ![t] = "pf_loop"]
               /\ UNCHANGED faults
    /\ UNCHANGED << cfg, out, complete, blacklist, stopped, is_listing_files,
                    is_processing_files, observer, events, entries, file_list,
                    ok, cur, maybe_more_files, count, forced, stop_at, cut,
                    eligible, handled >>

\* --------------------------------------------------------------------- poll

\* Lines 604-632: poll resets the stopped flag and the blacklist, checks the
\* configuration and enters the configured driver.
Poll ==
    /\ pc["main"] = "init"
    /\ stopped' = FALSE
    /\ blacklist' = [f \in Files |-> 0]
    /\ pc' = [pc EXCEPT !["main"] =
                 IF use_watchdog /\ ~continuous THEN "config_error"
                 ELSE IF use_watchdog THEN "wd_start" ELSE "sp_loop"]
    /\ UNCHANGED << cfg, out, loc, complete, is_listing_files, is_processing_files,
                    observer, events, entries, file_list, ok, cur, i,
                    maybe_more_files, count, faults, forced, stop_at, cut,
                    eligible, handled >>

\* ------------------------------------------------------------- _simple_poll

\* Lines 604-632 again: poll() called on the same object after an earlier
\* call has ended (returned or raised), on the directory as it was left. The
\* method resets the stopped flag and the blacklist, and nothing else of the
\* object; the event-driven driver creates a new observer. The locals of the
\* earlier call are gone.
PollAgain ==
    /\ pc["main"] \in {"returned", "raised"}
    /\ stopped' = FALSE
    /\ blacklist' = [f \in Files |-> 0]
    /\ pc' = [t \in Threads |->
                 IF t = "observer" THEN "idle"
                 ELSE IF use_watchdog THEN "wd_start" ELSE "sp_loop"]
    /\ observer' = "none"
    /\ events' = 0
    /\ entries' = [t \in Threads |-> << >>]
    /\ file_list' = [t \in Threads |-> << >>]
    /\ ok' = [t \in Threads |-> FALSE]
    /\ cur' = [t \in Threads |-> 0]
    /\ i' = [t \in Threads |-> 0]
    /\ maybe_more_files' = [t \in Threads |-> FALSE]
    /\ count' = 0
    /\ stop_at' = [t \in Threads |-> 0]
    /\ cut' = [t \in Threads |-> FALSE]
    /\ eligible' = [t \in Threads |-> {}]
    /\ handled' = [t \in Threads |-> << >>]
    /\ UNCHANGED << cfg, out, loc, complete, is_listing_files,
                    is_processing_files, faults, forced >>

\* Lines 552-553: the loop head of _simple_poll.
SimpleLoop ==
    /\ pc["main"] = "sp_loop"
    /\ pc' = [pc EXCEPT !["main"] = IF is_stopped THEN "returned" ELSE "lf_enter"]
    /\ UNCHANGED << cfg, out, loc, complete, blacklist, stopped, is_listing_files,
                    is_processing_files, observer, events, entries, file_list,
                    ok, cur, i, maybe_more_files, count, faults, forced,
                    stop_at, cut, eligible, handled >>

\* A driver that lists again after an empty listing whatever the mode: not
\* what the code does, the termination properties must tell it from
\* SimpleAfterList.
SimpleAfterListContinues ==
    /\ ~use_watchdog
    /\ pc["main"] = "after_list"
    /\ pc' = [pc EXCEPT !["main"] =
                 IF file_list["main"] = None THEN "raised"
                 ELSE IF Len(file_list["main"]) = 0 THEN "sp_loop"
                 ELSE "pf_enter"]
    /\ file_list' = [file_list EXCEPT !["main"] = IF @ = None THEN << >> ELSE @]
    /\ cut' = [cut EXCEPT !["main"] = FALSE]
    /\ eligible' = [eligible EXCEPT !["main"] = {}]
    /\ UNCHANGED << cfg, out, loc, complete, blacklist, stopped, is_listing_files,
                    is_processing_files, observer, events, entries, ok, cur, i,
                    maybe_more_files, count, faults, forced, stop_at, handled >>

\* Lines 555-565: len(file_list) raises TypeError on None; an empty list ends
\* the poll unless continuous; otherwise the list is processed.
SimpleAfterList ==
    /\ ~use_watchdog
    /\ pc["main"] = "after_list"
    /\ pc' = [pc EXCEPT !["main"] =
                 IF file_list["main"] = None THEN "raised"
                 ELSE IF Len(file_list["main"]) = 0
                      THEN (IF continuous THEN "sp_loop" ELSE "returned")
                      ELSE "pf_enter"]
    /\ file_list' = [file_list EXCEPT !["main"] = IF @ = None THEN << >> ELSE @]
    /\ cut' = [cut EXCEPT !["main"] = @ /\ pc'["main"] = "returned"]
    /\ eligible' = [eligible EXCEPT !["main"] = {}]
    /\ UNCHANGED << cfg, out, loc, complete, blacklist, stopped, is_listing_files,
                    is_processing_files, observer, events, entries, ok, cur, i,
                    maybe_more_files, count, faults, forced, stop_at, handled >>

\* A driver that returns after its first batch: not what the code does, the
\* progress properties must tell it from SimpleAfterProcess.
SimpleAfterProcessReturns ==
    /\ ~use_watchdog
    /\ pc["main"] = "after_process"
    /\ pc' = [pc EXCEPT !["main"] = "returned"]
    /\ file_list' = [file_list EXCEPT !["main"] = << >>]
    /\ i' = [i EXCEPT !["main"] = 0]
    /\ stop_at' = [stop_at EXCEPT !["main"] = 0]
    /\ handled' = [handled EXCEPT !["main"] = << >>]
    /\ UNCHANGED << cfg, out, loc, complete, blacklist, stopped, is_listing_files,
                    is_processing_files, observer, events, entries, ok, cur,
                    maybe_more_files, count, faults, forced, cut, eligible >>

\* Line 565, back to the loop head.
SimpleAfterProcess ==
    /\ ~use_watchdog
    /\ pc["main"] = "after_process"
    /\ pc' = [pc EXCEPT !["main"] = "sp_loop"]
    /\ file_list' = [file_list EXCEPT !["main"] = << >>]
    /\ i' = [i EXCEPT !["main"] = 0]
    /\ stop_at' = [stop_at EXCEPT !["main"] = 0]
    /\ handled' = [handled EXCEPT !["main"] = << >>]
    /\ UNCHANGED << cfg, out, loc, complete, blacklist, stopped, is_listing_files,
                    is_processing_files, observer, events, entries, ok, cur,
                    maybe_more_files, count, faults, forced, cut, eligible >>

\* ----------------------------------------------------------- _watchdog_poll

\* Lines 571-576: the observer is created and started, count = 0.
WatchdogStart ==
    /\ pc["main"] = "wd_start"
    /\ observer' = "running"
    /\ count' = 0
    /\ pc' = [pc EXCEPT !["main"] = "wd_tick"]
    /\ UNCHANGED << cfg, out, loc, complete, blacklist, stopped, is_listing_files,
                    is_processing_files, events, entries, file_list, ok, cur,
                    i, maybe_more_files, faults, forced, stop_at, cut,
                    eligible, handled >>

\* Lines 577-584 and 598-599: a drain is due when count is 0 or has reached
\* the interval; otherwise the loop sleeps one tick.
WatchdogTick ==
    /\ pc["main"] = "wd_tick"
    /\ IF count = 0 \/ count >= watchdog_check_interval
       THEN /\ count' = 0
            /\ maybe_more_files' = [maybe_more_files EXCEPT !["main"] = TRUE]
            /\ pc' = [pc EXCEPT !["main"] = "wd_drain"]
       ELSE /\ count' = count + 1
            /\ UNCHANGED << maybe_more_files, pc >>
    /\ UNCHANGED << cfg, out, loc, complete, blacklist, stopped, is_listing_files,
                    is_processing_files, observer, events, entries, file_list,
                    ok, cur, i, faults, forced, stop_at, cut, eligible,
                    handled >>

\* Lines 585-592 and 598: the drain loop's head. With nothing more to drain
\* the timer loop counts a tick; otherwise the thread waits until the poller
\* is not busy and then calls list_files.
WatchdogDrain ==
    /\ pc["main"] = "wd_drain"
    /\ IF maybe_more_files["main"]
       THEN /\ ~is_busy
            /\ pc' = [pc EXCEPT !["main"] = "lf_enter"]
            /\ UNCHANGED count
       ELSE /\ count' = count + 1
            /\ pc' = [pc EXCEPT !["main"] = "wd_tick"]
    /\ UNCHANGED << cfg, out, loc, complete, blacklist, stopped, is_listing_files,
                    is_processing_files, observer, events, entries, file_list,
                    ok, cur, i, maybe_more_files, faults, forced, stop_at,
                    cut, eligible, handled >>

\* A drain that goes round again after every listing that is not empty: not
\* what the code does, the drain properties must tell it from MaybeMore.
MaybeMoreUnlessEmpty(num_files) == num_files > 0

\* Whether the drain loops go round again after a listing of num_files paths
\* (lines 105-106 and 594-595).
MaybeMore(num_files) == ~(num_files = 0 \/ num_files < max_files)

\* Lines 592-597 and 600-602: len(file_list) raises TypeError on None, and the
\* finally clause stops the observer before joining it; otherwise the drain
\* flag is updated and a non-empty list is processed.
WatchdogAfterList ==
    /\ use_watchdog
    /\ pc["main"] = "after_list"
    /\ IF file_list["main"] = None
       THEN /\ observer' = "stopped"
            /\ pc' = [pc EXCEPT !["main"] = "wd_join"]
            /\ file_list' = [file_list EXCEPT !["main"] = << >>]
            /\ UNCHANGED maybe_more_files
       ELSE /\ maybe_more_files' = [maybe_more_files EXCEPT !["main"] =
                                       MaybeMore(Len(file_list["main"]))]
            /\ pc' = [pc EXCEPT !["main"] =
                         IF Len(file_list["main"]) > 0 THEN "pf_enter" ELSE "wd_drain"]
            /\ UNCHANGED << observer, file_list >>
    /\ cut' = [cut EXCEPT !["main"] = FALSE]
    /\ eligible' = [eligible EXCEPT !["main"] = {}]
    /\ UNCHANGED << cfg, out, loc, complete, blacklist, stopped, is_listing_files,
                    is_processing_files, events, entries, ok, cur, i, count,
                    faults, forced, stop_at, handled >>

\* Line 597, back to the drain loop's head.
WatchdogAfterProcess ==
    /\ use_watchdog
    /\ pc["main"] = "after_process"
    /\ pc' = [pc EXCEPT !["main"] = "wd_drain"]
    /\ file_list' = [file_list EXCEPT !["main"] = << >>]
    /\ i' = [i EXCEPT !["main"] = 0]
    /\ stop_at' = [stop_at EXCEPT !["main"] = 0]
    /\ handled' = [handled EXCEPT !["main"] = << >>]
    /\ UNCHANGED << cfg, out, loc, complete, blacklist, stopped, is_listing_files,
                    is_processing_files, observer, events, entries, ok, cur,
                    maybe_more_files, count, faults, forced, cut, eligible >>

\* Line 602: join returns once the observer thread has ended; the TypeError
\* then leaves poll.
WatchdogJoin ==
    /\ pc["main"] = "wd_join"
    /\ pc["observer"] \in {"exited", "dead"}
    /\ observer' = "joined"
    /\ pc' = [pc EXCEPT !["main"] = "raised"]
    /\ UNCHANGED << cfg, out, loc, complete, blacklist, stopped, is_listing_files,
                    is_processing_files, events, entries, file_list, ok, cur,
                    i, maybe_more_files, count, faults, forced, stop_at, cut,
                    eligible, handled >>

\* ------------------------------------------- FileCreatedHandler.on_created

\* The observer thread between events: it hands the next queued creation
\* event to on_created, or ends once the observer has been stopped.
ObserverDispatch ==
    /\ pc["observer"] = "idle"
    /\ \/ /\ observer = "running"
          /\ events > 0
          /\ events' = events - 1
          /\ pc' = [pc EXCEPT !["observer"] = "oc_wait"]
       \/ /\ observer = "stopped"
          /\ pc' = [pc EXCEPT !["observer"] = "exited"]
          /\ UNCHANGED events
    /\ UNCHANGED << cfg, out, loc, complete, blacklist, stopped, is_listing_files,
                    is_processing_files, observer, entries, file_list, ok,
                    cur, i, maybe_more_files, count, faults, forced, stop_at,
                    cut, eligible, handled >>

\* Lines 95-101: on_created waits until the poller is not busy.
CreatedWait ==
    /\ pc["observer"] = "oc_wait"
    /\ ~is_busy
    /\ maybe_more_files' = [maybe_more_files EXCEPT !["observer"] = TRUE]
    /\ pc' = [pc EXCEPT !["observer"] = "oc_drain"]
    /\ UNCHANGED << cfg, out, loc, complete, blacklist, stopped, is_listing_files,
                    is_processing_files, observer, events, entries, file_list,
                    ok, cur, i, count, faults, forced, stop_at, cut, eligible,
                    handled >>

\* Lines 102-103: the drain loop's head of on_created (no wait inside it).
CreatedDrain ==
    /\ pc["observer"] = "oc_drain"
    /\ pc' = [pc EXCEPT !["observer"] =
                 IF maybe_more_files["observer"] THEN "lf_enter" ELSE "idle"]
    /\ UNCHANGED << cfg, out, loc, complete, blacklist, stopped, is_listing_files,
                    is_processing_files, observer, events, entries, file_list,
                    ok, cur, i, maybe_more_files, count, faults, forced,
                    stop_at, cut, eligible, handled >>

\* Lines 103-108: len(file_list) raises TypeError on None, which ends the
\* observer thread; otherwise as in the timer's drain.
CreatedAfterList ==
    /\ pc["observer"] = "after_list"
    /\ IF file_list["observer"] = None
       THEN /\ pc' = [pc EXCEPT !["observer"] = "dead"]
            /\ file_list' = [file_list EXCEPT !["observer"] = << >>]
            /\ UNCHANGED maybe_more_files
       ELSE /\ maybe_more_files' = [maybe_more_files EXCEPT !["observer"] =
                                       MaybeMore(Len(file_list["observer"]))]
            /\ pc' = [pc EXCEPT !["observer"] =
                         IF Len(file_list["observer"]) > 0 THEN "pf_enter" ELSE "oc_drain"]
            /\ UNCHANGED file_list
    /\ cut' = [cut EXCEPT !["observer"] = FALSE]
    /\ eligible' = [eligible EXCEPT !["observer"] = {}]
    /\ UNCHANGED << cfg, out, loc, complete, blacklist, stopped, is_listing_files,
                    is_processing_files, observer, events, entries, ok, cur, i,
                    count, faults, forced, stop_at, handled >>

\* Line 108, back to the drain loop's head.
CreatedAfterProcess ==
    /\ pc["observer"] = "after_process"
    /\ pc' = [pc EXCEPT !["observer"] = "oc_drain"]
    /\ file_list' = [file_list EXCEPT !["observer"] = << >>]
    /\ i' = [i EXCEPT !["observer"] = 0]
    /\ stop_at' = [stop_at EXCEPT !["observer"] = 0]
    /\ handled' = [handled EXCEPT !["observer"] = << >>]
    /\ UNCHANGED << cfg, out, loc, complete, blacklist, stopped, is_listing_files,
                    is_processing_files, observer, events, entries, ok, cur,
                    maybe_more_files, count, faults, forced, cut, eligible >>

\* ----------------------------------------------------------- specifications

\* What the main thread does under the fixed-interval driver.
SimpleStep ==
    \/ Poll
    \/ SimpleLoop
    \/ ListEnter("main")
    \/ ListStart("main")
    \/ ListLoop("main")
    \/ ListRecord("main")
    \/ ListSweep("main")
    \/ SimpleAfterList
    \/ ProcessEnter("main")
    \/ ProcessLoop("main")
    \/ ProcessFile("main")
    \/ ProcessPromote("main")
    \/ ProcessMove("main")
    \/ ProcessOther("main")
    \/ SimpleAfterProcess

\* What the producers and the callers of stop() do, and the caller of a
\* further poll().
Environment ==
    \/ \E f \in Files : CreateFile(f)
    \/ \E f \in Files : CompleteFile(f)
    \/ Stop
    \/ PollAgain

\* What the main and the observer thread do under the event-driven driver,
\* beyond the steps of list_files and process_files.
WatchdogStep ==
    \/ WatchdogStart
    \/ WatchdogTick
    \/ WatchdogDrain
    \/ WatchdogAfterList
    \/ WatchdogAfterProcess
    \/ WatchdogJoin
    \/ ObserverDispatch
    \/ CreatedWait
    \/ CreatedDrain
    \/ CreatedAfterList
    \/ CreatedAfterProcess
    \/ \E t \in Threads : ListEnter(t)
    \/ \E t \in Threads : ListStart(t)
    \/ \E t \in Threads : ListLoop(t)
    \/ \E t \in Threads : ListRecord(t)
    \/ \E t \in Threads : ListSweep(t)
    \/ \E t \in Threads : ProcessEnter(t)
    \/ \E t \in Threads : ProcessLoop(t)
    \/ \E t \in Threads : ProcessFile(t)
    \/ \E t \in Threads : ProcessMove(t)

Next == Environment \/ SimpleStep \/ WatchdogStep

NextSimple == Environment \/ SimpleStep

NextWatchdog == Environment \/ Poll \/ WatchdogStep

\* Every configuration, both drivers.
Spec == Init /\ [][Next]_vars

\* The configurations of the fixed-interval driver.
InitSimple == Init /\ ~cfg.use_watchdog

SpecSimple == InitSimple /\ [][NextSimple]_vars

\* The fixed-interval driver with its thread always making progress. The
\* producers and the callers of stop() are under no obligation, and the
\* failures are at most MaxFaults.
FairSimple == SpecSimple /\ WF_vars(SimpleStep)

\* The fixed-interval driver, non-continuous, on a directory that is settled
\* when poll() is called: the producers drop and finish their files before
\* the call and leave the directory alone afterwards. stop() and a further
\* poll() may be called at any time.
InitSettled == InitSimple /\ ~cfg.continuous

NextSettled ==
    \/ pc["main"] = "init" /\ \E f \in Files : CreateFile(f)
    \/ pc["main"] = "init" /\ \E f \in Files : CompleteFile(f)
    \/ Stop
    \/ PollAgain
    \/ SimpleStep

SpecSettled == InitSettled /\ [][NextSettled]_vars

\* The same with the driver's thread always making progress.
FairSettled == SpecSettled /\ WF_vars(SimpleStep)

\* The fixed-interval driver with a sibling pattern and no extension filter,
\* so that list_files returns the siblings as candidates too: non-continuous
\* and uncapped, input_dir absolute.
SiblingConfigs ==
    { c \in [ use_watchdog : {FALSE}, continuous : {FALSE},
              max_files : {-1}, blacklist_tries : {1},
              delete_input : BOOLEAN, extensions : {FALSE},
              process_file : { {} }, tmp_dir : BOOLEAN,
              input_dir : {AbsoluteDir},
              other_input_files : {TRUE},
              delete_other_input_files : BOOLEAN,
              meta_stem : MetaStems ] : TRUE }

InitSiblings == cfg \in SiblingConfigs /\ InitState

SpecSiblings == InitSiblings /\ [][NextSimple]_vars

\* The configurations of the event-driven driver.
InitWatchdog == Init /\ cfg.use_watchdog

SpecWatchdog == InitWatchdog /\ [][NextWatchdog]_vars

\* The steps of the thread that called poll() under the event-driven driver,
\* and those of the observer thread.
MainStep ==
    \/ Poll
    \/ WatchdogStart
    \/ WatchdogTick
    \/ WatchdogDrain
    \/ WatchdogAfterList
    \/ WatchdogAfterProcess
    \/ WatchdogJoin
    \/ ListEnter("main")
    \/ ListStart("main")
    \/ ListLoop("main")
    \/ ListRecord("main")
    \/ ListSweep("main")
    \/ ProcessEnter("main")
    \/ ProcessLoop("main")
    \/ ProcessFile("main")
    \/ ProcessMove("main")

ObserverStep ==
    \/ ObserverDispatch
    \/ CreatedWait
    \/ CreatedDrain
    \/ CreatedAfterList
    \/ CreatedAfterProcess
    \/ ListEnter("observer")
    \/ ListStart("observer")
    \/ ListLoop("observer")
    \/ ListRecord("observer")
    \/ ListSweep("observer")
    \/ ProcessEnter("observer")
    \/ ProcessLoop("observer")
    \/ ProcessFile("observer")
    \/ ProcessMove("observer")

\* The event-driven driver, continuous and without a cap, with both threads
\* always making progress. The producers and the callers of stop() and of a
\* further poll() are under no obligation.
InitFairWatchdog == InitWatchdog /\ cfg.continuous /\ cfg.max_files < 0

FairWatchdog ==
    /\ InitFairWatchdog
    /\ [][NextWatchdog]_vars
    /\ WF_vars(MainStep)
    /\ WF_vars(ObserverStep)

\* ------------------------------------------------------------- properties

\* The thread is inside list_files, past the line that raises the flag.
Listing(t) == pc[t] \in {"lf_loop", "lf_record", "lf_sweep"}
\* The thread is inside process_files, past the line that raises the flag.
Processing(t) ==
    pc[t] \in {"pf_loop", "pf_handle", "pf_promote", "pf_move", "pf_other"}
\* The thread holds a candidate list (not None).
HasList(t) == file_list[t] # None
\* The files of the thread's candidate list.
Listed(t) == IF HasList(t) THEN { file_list[t][j] : j \in 1 .. Len(file_list[t]) }
             ELSE {}
\* list_files has just returned a list to the thread's driver.
Returned(t) == pc[t] = "after_list" /\ HasList(t)

\* C1: in event-driven mode the notifier callback and the fallback-timer loop
\* are never inside list_files/process_files at the same time.
C1_OneCycleInFlight ==
    ~ /\ Listing("main") \/ Processing("main")
      /\ Listing("observer") \/ Processing("observer")

\* C2: no file is handed to the processor by two cycles: the processor never
\* returns successfully for the same file in both threads.
C2_ProcessedOnce ==
    ~ /\ pc["main"] = "pf_move"
      /\ pc["observer"] = "pf_move"
      /\ file_list["main"][i["main"]] = file_list["observer"][i["observer"]]

\* C3: a file the blacklist sweep has removed after blacklist_tries failed
\* validations is out of the input directory and has no blacklist entry in
\* any later state.
C3_SweptFileForgotten ==
    \A f \in Files : forced[f] => loc[f] # "input" /\ blacklist[f] = 0

\* C4: with blacklist_tries above one, a file that passed validation and sits
\* in a candidate list, still in the input directory, has no blacklist entry
\* and was not relocated by the sweep.
C4_PassedFileCleared ==
    blacklist_tries > 1 =>
        \A t \in Threads : \A f \in Listed(t) :
            loc[f] = "input" => blacklist[f] = 0 /\ ~forced[f]

\* The files that were eligible when the thread's listing began and are
\* still in the input directory.
StillEligible(t) == { f \in eligible[t] : loc[f] = "input" }

Truncated(f) ==
    /\ Returned("main")
    /\ max_files > 0
    /\ Len(file_list["main"]) = max_files
    /\ f \in StillEligible("main") \ Listed("main")

\* The poll invocation ended on a listing that an error cut short.
EndedOnError == pc["main"] = "returned" /\ cut["main"]

C7_StopMidBatch ==
    \A t \in Threads :
        pc[t] = "after_process" /\ stop_at[t] > 0 =>
            /\ handled[t] = SubSeq(file_list[t], 1, stop_at[t])
            /\ \A j \in 1 .. Len(file_list[t]) :
                  (loc[file_list[t][j]] = "input") <=> (j > stop_at[t])

\* C8: in fixed-interval mode, after stop() no error is raised out of poll().
C8_StopReturnsNormally ==
    ~use_watchdog /\ stopped => pc["main"] # "raised"

\* C9: in event-driven mode, poll() ends by returning, after stop(): it
\* never ends with an error raised out of it.
C9_WatchdogReturns ==
    use_watchdog => pc["main"] # "raised"

\* C10: the paths handed to the processor are a prefix of the batch, in the
\* order supplied, and process_files returns before the whole batch was
\* handled only when stop was requested, whatever was raised on the way.
C10_FailureNeverAborts ==
    \A t \in Threads :
        Processing(t) \/ pc[t] = "after_process" =>
            /\ Len(handled[t]) <= Len(file_list[t])
            /\ handled[t] = SubSeq(file_list[t], 1, Len(handled[t]))
            /\ pc[t] = "after_process" /\ ~stopped =>
                   handled[t] = file_list[t]

\* process_files has returned from a batch of two whose first path failed and
\* stayed in the input directory, and whose second path was relocated.
C10_Witness ==
    /\ pc["main"] = "after_process"
    /\ ~stopped
    /\ Len(file_list["main"]) = 2
    /\ handled["main"] = file_list["main"]
    /\ loc[file_list["main"][1]] = "input"
    /\ loc[file_list["main"][2]] # "input"


\* The step of thread t ends the handling of a path in the except branch of
\* lines 529-531.
HandlingFailed(t) ==
    /\ pc'[t] = "pf_loop"
    /\ \/ pc[t] \in {"pf_handle", "pf_promote"}
       \/ pc[t] = "pf_move" /\ loc' = loc
       \/ pc[t] = "pf_other" /\ faults' > faults

\* C11: whenever the handling of a path fails (in the processor, while its
\* outputs are promoted, while the input or a sibling is relocated), the input
\* file is in the input directory afterwards.
C11_FailedInputStays ==
    [][ \A t \in Threads :
           HandlingFailed(t) => loc'[file_list[t][i[t]]] = "input" ]_vars


\* C12: the fixed-interval driver returns only after stop was requested or,
\* non-continuous, after a listing without candidates; after a listing it
\* returns when stop was requested in it (no list) or when the list is empty
\* and the poll is not continuous, lists again when the list is empty and the
\* poll is continuous, and calls process_files when the list is not empty.
C12_SimpleReturns ==
    [][ ~use_watchdog /\ pc'["main"] # pc["main"] =>
          /\ pc'["main"] = "returned" =>
                \/ stopped
                \/ ~continuous /\ Returned("main") /\ file_list["main"] = << >>
          /\ pc["main"] = "after_list" =>
                pc'["main"] = IF ~HasList("main") THEN "returned"
                              ELSE IF file_list["main"] # << >> THEN "pf_enter"
                              ELSE IF continuous THEN "sp_loop"
                              ELSE "returned" ]_vars


\* C13: every poll() starts from the lifecycle state of a first one, whatever
\* the earlier calls of poll() and stop() left behind: the blacklist is empty,
\* the stopped flag is false and the poller is not busy.
C13_PollStartsFresh ==
    [][ pc["main"] \in {"init", "returned", "raised"} /\ Polling' =>
          /\ blacklist' = [f \in Files |-> 0]
          /\ ~stopped'
          /\ ~is_busy' ]_vars


\* C14: with the sibling pattern {NAME}.meta, once the handling of a path went
\* through, the file of the input directory with the stem of the input file
\* and the extension .meta is relocated or deleted, and the files with
\* another stem are where they were.
C14_SiblingsRelocated ==
    [][ \A t \in Threads :
           pc[t] = "pf_other" /\ pc'[t] = "pf_loop" /\ faults' = faults =>
              LET f == file_list[t][i[t]] IN
              \A g \in Files \ {f} :
                 loc'[g] = IF /\ loc[g] = "input"
                              /\ FileName(g) = << FileName(f)[1], ".meta" >>
                           THEN RemovedOther
                           ELSE loc[g] ]_vars


\* The step of thread t starts a call of the validator (line 413).
NewValidatorCall(t) ==
    /\ pc[t] = "lf_loop"
    /\ pc'[t] = "lf_record" \/ (pc'[t] = "after_list" /\ faults' > faults)
\* The step of thread t starts the handling of the next path of its batch
\* (lines 490-499).
NewProcessorCall(t) == pc[t] = "pf_loop" /\ pc'[t] = "pf_handle"

\* C15: once set, the stopped flag stays set until poll() is called again,
\* and with the flag set no thread starts a validator call or the handling of
\* another path; the unit that was started goes on.
C15_StopSticks ==
    [][ stopped =>
          /\ stopped' \/ (pc["main"] \in Terminal /\ Polling')
          /\ \A t \in Threads : ~NewValidatorCall(t) /\ ~NewProcessorCall(t)
      ]_vars

\* A batch of two cut by a stop that came while its first path was handled:
\* the first path was relocated after the stop, the second was left.
C15_Witness ==
    \E t \in Threads :
       /\ stopped
       /\ pc[t] = "after_process"
       /\ Len(file_list[t]) = 2
       /\ stop_at[t] = 1
       /\ handled[t] = << file_list[t][1] >>
       /\ loc[file_list[t][1]] = Removed
       /\ loc[file_list[t][2]] = "input"


\* The step of thread t takes the list that list_files returned to a drain
\* loop of the event-driven driver.
DrainDecides(t) ==
    use_watchdog /\ Returned(t) /\ pc'[t] # pc[t]

\* C16: in an event-driven drain, for every max_files, the drain goes round
\* again after a listing exactly when the size of the listing equals
\* max_files, and a drain loop calls list_files only while its flag is set.
C16_DrainRepeatsAtCap ==
    [][ \A t \in Threads :
          /\ DrainDecides(t) =>
                (maybe_more_files'[t] <=> Len(file_list[t]) = max_files)
          /\ pc[t] \in {"wd_drain", "oc_drain"} /\ pc'[t] = "lf_enter" =>
                maybe_more_files[t] ]_vars

\* C16 as the code has it: with a cap of N > 0 the drain goes round again
\* exactly when the listing has N paths; without a cap (max_files <= 0) it
\* goes round again exactly when the listing is not empty. A drain loop calls
\* list_files only while its flag is set.
C16_DrainRepeatsAtCapOrUncapped ==
    [][ \A t \in Threads :
          /\ DrainDecides(t) =>
                (maybe_more_files'[t] <=>
                    IF max_files > 0 THEN Len(file_list[t]) = max_files
                                     ELSE Len(file_list[t]) > 0)
          /\ pc[t] \in {"wd_drain", "oc_drain"} /\ pc'[t] = "lf_enter" =>
                maybe_more_files[t] ]_vars

\* A drain without a cap that goes round again: its listing was not empty,
\* the batch has been processed and the loop is about to call list_files.
C16_Witness ==
    \E t \in Threads :
       /\ max_files < 0
       /\ pc[t] = "after_process"
       /\ Len(file_list[t]) > 0
       /\ maybe_more_files[t]
       /\ ~stopped


\* Nobody is about to list the file: no creation event is queued, the
\* observer thread is between events and the timer loop between drains.
Missed(f) ==
    /\ f \in Eligible
    /\ pc["main"] \in {"wd_start", "wd_tick"}
    /\ pc["observer"] = "idle"
    /\ events = 0

\* C17: in event-driven mode the timer loop starts with a drain (count is 0
\* when the loop is entered) and drains again whenever count has reached
\* watchdog_check_interval, so count never passes it; and an eligible file
\* that no creation event announces is handed to the processor and relocated,
\* unless stop is requested.
C17_TimerDrains ==
    /\ [](pc["main"] = "wd_tick" /\ observer = "running" =>
             count <= watchdog_check_interval)
    /\ [][pc["main"] = "wd_start" => pc'["main"] = "wd_start" \/ count' = 0]_vars
    /\ [][pc["main"] = "wd_tick" /\ pc'["main"] # "wd_tick" =>
             (count = 0 \/ count >= watchdog_check_interval)
                 /\ pc'["main"] = "wd_drain" /\ maybe_more_files'["main"]]_vars
    /\ \A f \in Files :
          Missed(f) ~> ((loc[f] = Removed /\ out[f] = "output") \/ stopped)


\* C18: the effects of process_files on one path come in this order. With a
\* staging directory the processor writes there (its outputs are in the
\* staging directory while the input is in place), then the outputs are moved
\* to the output directory (before the input leaves the input directory),
\* then the input is relocated, then the siblings (a sibling is gone only
\* once an input of its stem is gone and its outputs are in the output
\* directory). Without a staging directory the processor writes to the output
\* directory, and no output is ever in a staging directory or moved.
C18_EffectsInOrder ==
    /\ \A t \in Threads :
          pc[t] \in {"pf_promote", "pf_move", "pf_other"} =>
             LET f == file_list[t][i[t]] IN
             /\ pc[t] = "pf_promote" =>
                   tmp_dir /\ out[f] = "tmp" /\ loc[f] = "input"
             /\ pc[t] = "pf_move" => out[f] = "output" /\ loc[f] = "input"
             /\ pc[t] = "pf_other" =>
                   other_input_files /\ out[f] = "output" /\ loc[f] = Removed
    /\ ~tmp_dir => \A f \in Files : out[f] # "tmp"
    /\ other_input_files /\ loc[1] \notin {"none", "input"} =>
          \E g \in Files \ {1} :
             /\ FileName(g)[1] = FileName(1)[1]
             /\ loc[g] = Removed
             /\ out[g] = "output"

\* A path handled with a staging directory and a sibling: its outputs are in
\* the output directory, the input and the sibling are relocated.
C18_Witness ==
    /\ tmp_dir
    /\ other_input_files
    /\ pc["main"] = "pf_loop"
    /\ handled["main"] = << 2 >>
    /\ out[2] = "output"
    /\ loc[2] = Removed
    /\ loc[1] = RemovedOther


\* C19: an error of os.listdir or of the validator does not leave list_files:
\* the call returns to its driver the list of the candidates accumulated
\* before the error (none when os.listdir raised), with the listing flag
\* lowered.
C19_ListingErrorContained ==
    [][ \A t \in Threads :
           pc[t] \in {"lf_start", "lf_loop"} /\ faults' > faults =>
              /\ pc'[t] = "after_list"
              /\ file_list'[t] = IF pc[t] = "lf_start" THEN << >>
                                                      ELSE file_list[t]
              /\ file_list'[t] # None
              /\ ~is_listing_files' ]_vars

\* The validator raised on the second entry: list_files has returned the
\* first one, and an eligible file is not in the list.
C19_Witness ==
    /\ pc["main"] = "after_list"
    /\ cut["main"]
    /\ HasList("main")
    /\ Len(file_list["main"]) = 1
    /\ Eligible \ Listed("main") # {}
    /\ ~is_listing_files


\* C20: no strike count ever exceeds blacklist_tries, and while no thread is
\* between the recording of a validator's answer and the sweep that follows
\* it (at the boundaries between directory entries and between cycles) every
\* blacklist entry has a count below blacklist_tries.
C20_StrikesBelowThreshold ==
    /\ \A f \in Files : blacklist[f] <= blacklist_tries
    /\ (\A t \in Threads : pc[t] # "lf_sweep") =>
          \A f \in Files : blacklist[f] < blacklist_tries


\* The thread is executing list_files, from its entry test to its return.
InsideListFiles(t) == pc[t] \in {"lf_enter", "lf_start", "lf_loop", "lf_record", "lf_sweep"}
\* The thread is executing process_files, from its entry test to its return.
InsideProcessFiles(t) ==
    pc[t] \in {"pf_enter", "pf_loop", "pf_handle", "pf_promote", "pf_move", "pf_other"}

\* C21: is_listing_files is true only while some thread is executing
\* list_files and is_processing_files only while some thread is executing
\* process_files, so that is_busy is false when no call is in flight and
\* after poll() has ended.
C21_BusyFlagsAccurate ==
    /\ is_listing_files => \E t \in Threads : InsideListFiles(t)
    /\ is_processing_files => \E t \in Threads : InsideProcessFiles(t)


C23_ProcessorInputPresent ==
    [][ NewProcessorCall("main") =>
           loc[file_list["main"][i["main"]]] = "input" ]_vars

====
